---- MODULE Spec2Model ----
(***************************************************************************)
(* Model of the LRU cache of src/src/lib.rs.                               *)
(*                                                                         *)
(* The cache owns a HashMap from key to RefCell<LruNode>, and two          *)
(* Option<K> endpoints, head and tail.  Every place of the code that takes *)
(* a node out of the map does so with `.cloned()` / `.clone()`, which for  *)
(* RefCell<T: Clone> builds a NEW cell holding a copy of the node.  The    *)
(* operators below therefore pass nodes by value: a write to such a node   *)
(* changes the copy, a write through `self.map.get(..).unwrap()` changes   *)
(* the stored node.  `Option::unwrap` of a missing map entry panics; the   *)
(* model records that in `panicked` and the run ends there.                *)
(***************************************************************************)
EXTENDS Integers, Sequences, FiniteSets, TLC

\* ------------------------------------------------------------------ bounds
MaxKey == 3
MaxVal == 2
MaxCap == 3

Keys == 1..MaxKey
Vals == 1..MaxVal
Capacities == 0..MaxCap

\* ------------------------------------------------------- Option<T> values
None == <<>>
Some(x) == <<x>>
unwrap(o) == o[1]

\* --------------------------------------------------------------- LruNode
LruNode_new(key, value) ==
    [key |-> key, value |-> value, prev |-> None, next |-> None]

\* LruCache.capacity
VARIABLE capacity
\* LruCache.map : key -> node stored in the map
VARIABLE map
\* LruCache.head : Option<K>
VARIABLE head
\* LruCache.tail : Option<K>
VARIABLE tail
\* TRUE once a call has panicked (unwrap of a missing map entry)
VARIABLE panicked
\* history: the last call, its arguments, its result and the keys before it
VARIABLE last
\* history: the reference LRU (a sequence of <<key, value>>, least recently
\* used first) and the keys in the order of their last successful get or put
VARIABLE hist

vars == <<capacity, map, head, tail, panicked, last, hist>>

\* The cache as one value, the `self` of the methods.
Self == [capacity |-> capacity, map |-> map, head |-> head, tail |-> tail,
         panicked |-> panicked]

\* ------------------------------------------------------- HashMap helpers
contains_key(m, k) == k \in DOMAIN m
map_insert(m, k, node) ==
    [x \in (DOMAIN m) \cup {k} |-> IF x = k THEN node ELSE m[x]]
map_remove(m, k) == [x \in (DOMAIN m) \ {k} |-> m[x]]
map_len(m) == Cardinality(DOMAIN m)
EmptyMap == [x \in {} |-> LruNode_new(0, 0)]

panic(self) == [self EXCEPT !.panicked = TRUE]

\* --------------------------------------------------------- LruCache::new
new(cap) == [capacity |-> cap, map |-> EmptyMap, head |-> None, tail |-> None,
             panicked |-> FALSE]

\* ------------------------------------------------- LruCache::remove_node
\* `node` is the caller's copy; prev and next are read from it, the
\* neighbours are written in the map.
remove_node(self, node) ==
    LET prev_ref == node.prev
        next_ref == node.next
        s1 == IF prev_ref = None
              THEN [self EXCEPT !.head = next_ref]
              ELSE IF contains_key(self.map, unwrap(prev_ref))
                   THEN [self EXCEPT !.map[unwrap(prev_ref)].next = next_ref]
                   ELSE panic(self)
    IN  IF s1.panicked THEN s1
        ELSE IF next_ref = None
             THEN [s1 EXCEPT !.tail = prev_ref]
             ELSE IF contains_key(s1.map, unwrap(next_ref))
                  THEN [s1 EXCEPT !.map[unwrap(next_ref)].prev = prev_ref]
                  ELSE panic(s1)

\* append_node that links the old tail to the node but leaves self.tail.
append_node_keeps_tail(self, node) ==
    IF self.tail = None
    THEN [self |-> [self EXCEPT !.head = Some(node.key),
                                !.tail = Some(node.key)],
          node |-> node]
    ELSE LET node1 == [node EXCEPT !.prev = self.tail]
         IN  IF contains_key(self.map, unwrap(self.tail))
             THEN [self |-> [self EXCEPT
                                !.map[unwrap(self.tail)].next = Some(node.key)],
                   node |-> node1]
             ELSE [self |-> panic(self), node |-> node1]

\* append_node on a node shared with the map: prev is written to the stored
\* node as well.
append_node_shared(self, node) ==
    IF self.tail = None
    THEN [self |-> [self EXCEPT !.head = Some(node.key),
                                !.tail = Some(node.key)],
          node |-> node]
    ELSE LET node1 == [node EXCEPT !.prev = self.tail]
             m1 == IF contains_key(self.map, node.key)
                   THEN [self.map EXCEPT ![node.key].prev = self.tail]
                   ELSE self.map
         IN  IF contains_key(self.map, unwrap(self.tail))
             THEN [self |-> [self EXCEPT
                                !.map = [m1 EXCEPT
                                  ![unwrap(self.tail)].next = Some(node.key)],
                                !.tail = Some(node.key)],
                   node |-> node1]
             ELSE [self |-> panic(self), node |-> node1]

\* ------------------------------------------------- LruCache::append_node
\* Returns the cache and the caller's node after the call: node.prev is
\* written to the caller's cell, never to the map.
append_node(self, node) ==
    IF self.tail = None
    THEN [self |-> [self EXCEPT !.head = Some(node.key),
                                !.tail = Some(node.key)],
          node |-> node]
    ELSE LET node1 == [node EXCEPT !.prev = self.tail]
         IN  IF contains_key(self.map, unwrap(self.tail))
             THEN [self |-> [self EXCEPT
                                !.map[unwrap(self.tail)].next = Some(node.key),
                                !.tail = Some(node.key)],
                   node |-> node1]
             ELSE [self |-> panic(self), node |-> node1]

\* move_to_back that unlinks with evict_node, which also drops the entry
\* from the map.
move_to_back_evict(self, key) ==
    IF contains_key(self.map, key)
    THEN LET node_ref == self.map[key]
             s1 == IF ~contains_key(self.map, key) THEN panic(self)
                   ELSE LET s0 == remove_node(self, node_ref)
                        IN  IF s0.panicked THEN s0
                            ELSE [s0 EXCEPT !.map = map_remove(s0.map, key)]
         IN  IF s1.panicked THEN s1 ELSE append_node(s1, node_ref).self
    ELSE self

\* ------------------------------------------------ LruCache::move_to_back
move_to_back(self, key) ==
    IF contains_key(self.map, key)
    THEN LET node_ref == self.map[key]
             s1 == remove_node(self, node_ref)
         IN  IF s1.panicked THEN s1 ELSE append_node(s1, node_ref).self
    ELSE self

\* --------------------------------------------------------- LruCache::get
\* Returns the cache after the call and the returned Option<V>.
get(self, key) ==
    IF ~contains_key(self.map, key)
    THEN [self |-> self, ret |-> None]
    ELSE LET value == self.map[key].value
         IN  [self |-> move_to_back(self, key), ret |-> Some(value)]

\* -------------------------------------------------- LruCache::evict_node
evict_node(self, key) ==
    IF ~contains_key(self.map, key)
    THEN panic(self)
    ELSE LET node == self.map[key]
             s1 == remove_node(self, node)
         IN  IF s1.panicked THEN s1
             ELSE [s1 EXCEPT !.map = map_remove(s1.map, key)]

\* put with the capacity test off by one (`>` for `==`): never evicts in time.
put_late_evict(self, key, value) ==
    IF contains_key(self.map, key)
    THEN LET node_ref == [self.map[key] EXCEPT !.value = value]
             s1 == remove_node(self, node_ref)
         IN  IF s1.panicked THEN s1 ELSE append_node(s1, node_ref).self
    ELSE LET s1 == IF map_len(self.map) > self.capacity
                   THEN IF self.head # None
                        THEN evict_node(self, unwrap(self.head))
                        ELSE self
                   ELSE self
         IN  IF s1.panicked THEN s1
             ELSE LET node == LruNode_new(key, value)
                      s2 == [s1 EXCEPT !.map = map_insert(s1.map, key, node)]
                  IN  append_node(s2, node).self

\* put without the test for a present key: every put takes the insert path.
put_always_insert(self, key, value) ==
    LET s1 == IF map_len(self.map) = self.capacity
              THEN IF self.head # None
                   THEN evict_node(self, unwrap(self.head))
                   ELSE self
              ELSE self
    IN  IF s1.panicked THEN s1
        ELSE LET node == LruNode_new(key, value)
                 s2 == [s1 EXCEPT !.map = map_insert(s1.map, key, node)]
             IN  append_node(s2, node).self

\* --------------------------------------------------------- LruCache::put
put(self, key, value) ==
    IF contains_key(self.map, key)
    THEN LET node_ref == [self.map[key] EXCEPT !.value = value]
             s1 == remove_node(self, node_ref)
         IN  IF s1.panicked THEN s1 ELSE append_node(s1, node_ref).self
    ELSE LET s1 == IF map_len(self.map) = self.capacity
                   THEN IF self.head # None
                        THEN evict_node(self, unwrap(self.head))
                        ELSE self
                   ELSE self
         IN  IF s1.panicked THEN s1
             ELSE LET node == LruNode_new(key, value)
                      s2 == [s1 EXCEPT !.map = map_insert(s1.map, key, node)]
                  IN  append_node(s2, node).self

\* delete without the test for a present key: an absent key is unlinked as
\* a node without neighbours.
delete_unguarded(self, key) ==
    LET node_ref == IF contains_key(self.map, key) THEN self.map[key]
                    ELSE LruNode_new(key, 0)
        s1 == remove_node(self, node_ref)
    IN  IF s1.panicked THEN s1
        ELSE [s1 EXCEPT !.map = map_remove(s1.map, key)]

\* ------------------------------------------------------ LruCache::delete
delete(self, key) ==
    IF contains_key(self.map, key)
    THEN LET node_ref == self.map[key]
             s1 == remove_node(self, node_ref)
         IN  IF s1.panicked THEN s1
             ELSE [s1 EXCEPT !.map = map_remove(s1.map, key)]
    ELSE self

\* reset that forgets the tail endpoint.
reset_keeps_tail(self) == [self EXCEPT !.map = EmptyMap, !.head = None]

\* ------------------------------------------------------- LruCache::reset
reset(self) == [self EXCEPT !.map = EmptyMap, !.head = None, !.tail = None]

\* ---------------------------------------------------------- history state
\* The reference LRU: an ordered list of <<key, value>> pairs, least
\* recently used first.
RefHas(r, k) == \E i \in 1..Len(r) : r[i][1] = k
RefValue(r, k) == (CHOOSE i \in 1..Len(r) : r[i][1] = k)
RefWithout(r, k) == SelectSeq(r, LAMBDA p : p[1] # k)
RefGetRet(r, k) == IF RefHas(r, k) THEN Some(r[RefValue(r, k)][2]) ELSE None
RefGet(r, k) ==
    IF RefHas(r, k) THEN Append(RefWithout(r, k), r[RefValue(r, k)]) ELSE r
RefPut(r, cap, k, v) ==
    IF RefHas(r, k) THEN Append(RefWithout(r, k), <<k, v>>)
    ELSE IF Len(r) >= cap /\ Len(r) > 0 THEN Append(Tail(r), <<k, v>>)
    ELSE Append(r, <<k, v>>)
RefDelete(r, k) == RefWithout(r, k)

\* Order of last touch (successful get, or put) of every key touched so far.
Touch(t, k) == Append(SelectSeq(t, LAMBDA x : x # k), k)
LeastRecentlyTouched(t, present) ==
    LET s == SelectSeq(t, LAMBDA x : x \in present)
    IN  IF s = <<>> THEN None ELSE Some(Head(s))

\* The history kept beside the cache by the specification SpecHist: the
\* reference LRU, the order of last touch, and for the last call the
\* reference's result and the least recently touched key present before it.
HistInit == [ref |-> <<>>, touched |-> <<>>, refret |-> None, preLRT |-> None]
HistGet(h, k) ==
    [ref |-> RefGet(h.ref, k),
     touched |-> IF contains_key(map, k) THEN Touch(h.touched, k)
                 ELSE h.touched,
     refret |-> RefGetRet(h.ref, k),
     preLRT |-> LeastRecentlyTouched(h.touched, DOMAIN map)]
HistPut(h, k, v) ==
    [ref |-> RefPut(h.ref, capacity, k, v),
     touched |-> Touch(h.touched, k),
     refret |-> None,
     preLRT |-> LeastRecentlyTouched(h.touched, DOMAIN map)]
HistDelete(h, k) ==
    [ref |-> RefDelete(h.ref, k),
     touched |-> h.touched,
     refret |-> None,
     preLRT |-> LeastRecentlyTouched(h.touched, DOMAIN map)]
HistReset(h) ==
    [ref |-> <<>>,
     touched |-> h.touched,
     refret |-> None,
     preLRT |-> LeastRecentlyTouched(h.touched, DOMAIN map)]

\* The record of a call: its name, arguments and result, and the keys of the
\* index before it.
Call(op, key, val, ret) ==
    [op |-> op, key |-> key, val |-> val, ret |-> ret, preKeys |-> DOMAIN map]

Install(s) ==
    /\ capacity' = s.capacity
    /\ map' = s.map
    /\ head' = s.head
    /\ tail' = s.tail
    /\ panicked' = s.panicked

\* ----------------------------------------------------------------- state
Init ==
    /\ capacity \in Capacities
    /\ map = new(capacity).map
    /\ head = new(capacity).head
    /\ tail = new(capacity).tail
    /\ panicked = FALSE
    /\ hist = HistInit
    /\ last = [op |-> "new", key |-> 0, val |-> 0, ret |-> None,
               preKeys |-> {}]

\* One call of each public method, on a cache that has not panicked.
GetCall(k) ==
    /\ ~panicked
    /\ LET r == get(Self, k)
       IN  /\ Install(r.self)
           /\ last' = Call("get", k, 0, r.ret)

PutCall(k, v) ==
    /\ ~panicked
    /\ Install(put(Self, k, v))
    /\ last' = Call("put", k, v, None)

DeleteCall(k) ==
    /\ ~panicked
    /\ Install(delete(Self, k))
    /\ last' = Call("delete", k, 0, None)

ResetCall ==
    /\ ~panicked
    /\ Install(reset(Self))
    /\ last' = Call("reset", 0, 0, None)

\* The cache alone.
Get(k) == GetCall(k) /\ UNCHANGED hist
Put(k, v) == PutCall(k, v) /\ UNCHANGED hist
Delete(k) == DeleteCall(k) /\ UNCHANGED hist
Reset == ResetCall /\ UNCHANGED hist

Next ==
    \/ \E k \in Keys : Get(k)
    \/ \E k \in Keys, v \in Vals : Put(k, v)
    \/ \E k \in Keys : Delete(k)
    \/ Reset

Spec == Init /\ [][Next]_vars

\* The cache alone, called with one key more than Keys holds: a full index
\* of MaxCap keys then still leaves an absent key to put.
WideKeys == 1..(MaxKey + 1)

NextWide ==
    \/ \E k \in WideKeys : Get(k)
    \/ \E k \in WideKeys, v \in Vals : Put(k, v)
    \/ \E k \in WideKeys : Delete(k)
    \/ Reset

SpecWide == Init /\ [][NextWide]_vars

\* The cache run beside the reference LRU.
GetH(k) == GetCall(k) /\ hist' = HistGet(hist, k)
PutH(k, v) == PutCall(k, v) /\ hist' = HistPut(hist, k, v)
DeleteH(k) == DeleteCall(k) /\ hist' = HistDelete(hist, k)
ResetH == ResetCall /\ hist' = HistReset(hist)

NextH ==
    \/ \E k \in Keys : GetH(k)
    \/ \E k \in Keys, v \in Vals : PutH(k, v)
    \/ \E k \in Keys : DeleteH(k)
    \/ ResetH

SpecHist == Init /\ [][NextH]_vars

TypeOK ==
    /\ capacity \in Capacities
    /\ DOMAIN map \subseteq Keys
    /\ \A k \in DOMAIN map :
          /\ map[k].key = k
          /\ map[k].value \in Vals
          /\ map[k].prev \in {None} \cup {Some(x) : x \in Keys}
          /\ map[k].next \in {None} \cup {Some(x) : x \in Keys}
    /\ head \in {None} \cup {Some(x) : x \in Keys}
    /\ tail \in {None} \cup {Some(x) : x \in Keys}
    /\ panicked \in BOOLEAN

\* ------------------------------------------------------------ the order
\* The keys met when walking from `from` along the stored next links, for at
\* most `fuel` steps; a key that is not in the map ends the walk.
RECURSIVE Walk(_, _, _)
Walk(m, from, fuel) ==
    IF from = None \/ fuel = 0 THEN <<>>
    ELSE IF ~contains_key(m, unwrap(from)) THEN <<unwrap(from)>>
    ELSE <<unwrap(from)>> \o Walk(m, m[unwrap(from)].next, fuel - 1)

OrderWalk == Walk(map, head, map_len(map) + 1)

\* ----------------------------------------------------------------- claims

\* C1: every get returns what the reference LRU returns at the same point
\* (capacity >= 1).
C1_GetMatchesReference ==
    (capacity >= 1 /\ last.op = "get")
        => (~panicked /\ last.ret = hist.refret)

\* C2: a put of an absent key into a full index removes exactly the key that
\* was least recently touched among the keys present before the call.
C2_EvictsLeastRecentlyTouched ==
    (capacity >= 1 /\ last.op = "put" /\ last.key \notin last.preKeys
       /\ Cardinality(last.preKeys) = capacity)
        => (/\ ~panicked
            /\ {Some(k) : k \in last.preKeys \ DOMAIN map} = {hist.preLRT})

\* C3: after a get(k) that returned Some on a full cache of capacity >= 2,
\* an immediately following put of an absent key returns and leaves k in
\* the index.
C3_GetProtectsFromEviction ==
    [][(/\ capacity >= 2
        /\ last.op = "get" /\ last.ret # None
        /\ map_len(map) = capacity
        /\ last'.op = "put" /\ last'.key \notin DOMAIN map)
            => (~panicked' /\ last.key \in DOMAIN map')]_vars

\* C4: after put(k, v) on a present key k, an immediately following get(k)
\* returns Some(v) (stated for capacity >= 1).
C4_PutOverwritesValue ==
    [][(/\ capacity >= 1
        /\ last.op = "put" /\ last.key \in last.preKeys
        /\ last'.op = "get" /\ last'.key = last.key)
            => (~panicked' /\ last'.ret = Some(last.val))]_vars

\* C5: with capacity >= 1 the index never holds more than capacity entries.
C5_SizeWithinCapacity ==
    capacity >= 1 => map_len(map) <= capacity

\* C5 witness: a put of an absent key into a full index has returned.
C5_Witness ==
    /\ capacity >= 1 /\ ~panicked
    /\ last.op = "put" /\ last.key \notin last.preKeys
    /\ Cardinality(last.preKeys) = capacity
    /\ map_len(map) = capacity

\* C6: no call panics (no unwrap of a missing index entry), stated for
\* capacity >= 1.
C6_NoPanic == capacity >= 1 => ~panicked

\* C7: the walk from order_head along successor links visits exactly the
\* keys of the index, each once, and ends at order_tail (stated for the
\* states between calls of a cache of capacity >= 1).
C7_WalkVisitsIndex ==
    (capacity >= 1 /\ ~panicked) =>
        /\ Len(OrderWalk) = map_len(map)
        /\ {OrderWalk[i] : i \in 1..Len(OrderWalk)} = DOMAIN map
        /\ IF OrderWalk = <<>> THEN tail = None
           ELSE tail = Some(OrderWalk[Len(OrderWalk)])

\* C8: order_head is absent iff order_tail is absent iff the index is empty
\* (stated for the states between calls of a cache of capacity >= 1).
C8_EndpointsAbsentIffEmpty ==
    (capacity >= 1 /\ ~panicked) =>
        /\ (head = None) <=> (tail = None)
        /\ (head = None) <=> (DOMAIN map = {})

\* C9: after delete(k) of a present key, get(k) returns None and get(j)
\* of any other key j present before the delete returns Some of j's stored
\* value (stated for capacity >= 1).
C9_DeleteRemovesOnlyThatKey ==
    [][(/\ capacity >= 1
        /\ last.op = "delete" /\ last.key \in last.preKeys
        /\ last'.op = "get")
            => (/\ last'.key = last.key => last'.ret = None
                /\ (last'.key # last.key /\ last'.key \in last.preKeys)
                      => (/\ ~panicked'
                          /\ last'.key \in DOMAIN map
                          /\ last'.ret = Some(map[last'.key].value)))]_vars

\* C10: put(k, v) on a present key k leaves the set of keys in the index
\* unchanged, also when the index is at capacity.
C10_PutExistingKeepsKeys ==
    (last.op = "put" /\ last.key \in last.preKeys)
        => DOMAIN map = last.preKeys

\* C10 witness: a put of a present key into a full index of several keys
\* has returned.
C10_Witness ==
    /\ ~panicked /\ capacity >= 2
    /\ last.op = "put" /\ last.key \in last.preKeys
    /\ Cardinality(last.preKeys) = capacity

\* C11: after reset() the cache equals new(capacity) with the capacity it
\* had before: empty index, both endpoints absent, and get(k) returns None
\* for every key k.
C11_ResetEqualsNew ==
    [][(~panicked /\ last'.op = "reset")
          => (/\ Self' = new(capacity)
              /\ \A k \in Keys : get(Self', k).ret = None)]_vars

\* C11 witness: reset has returned on a cache that held entries.
C11_Witness ==
    /\ last.op = "reset" /\ last.preKeys # {}
    /\ DOMAIN map = {} /\ head = None /\ tail = None

\* C12: get(k) and delete(k) of a key that is not in the index leave the
\* whole cache unchanged (index, values, links, endpoints, capacity), and
\* get returns None.
C12_AbsentKeyNoChange ==
    [][(/\ ~panicked
        /\ last'.op \in {"get", "delete"}
        /\ last'.key \notin DOMAIN map)
          => (/\ Self' = Self
              /\ last'.op = "get" => last'.ret = None)]_vars

\* C12 witness: a get or a delete of an absent key has returned on a cache
\* that holds entries.
C12_Witness ==
    /\ ~panicked
    /\ last.op \in {"get", "delete"}
    /\ last.key \notin last.preKeys
    /\ last.preKeys # {}

\* C13: a cache built with capacity 0 stays empty (the code accepts
\* capacity 0 at construction, so it is not rejected).
C13_ZeroCapacityStaysEmpty ==
    capacity = 0 => DOMAIN map = {}

\* C14: a put removes a key from the index only when its own key is absent
\* and the index holds capacity entries, and then it removes exactly one
\* key, the one order_head named before the call; a put of a present key
\* and a put below capacity remove nothing (capacity >= 1).  Checked under
\* SpecWide.
C14_PutRemovesOnlyHead ==
    [][(capacity >= 1 /\ ~panicked /\ last'.op = "put")
          => IF last'.key \notin DOMAIN map /\ map_len(map) = capacity
             THEN /\ head # None
                  /\ (DOMAIN map) \ (DOMAIN map') = {unwrap(head)}
             ELSE (DOMAIN map) \ (DOMAIN map') = {}]_vars

\* C15: right after a get(k) that returned Some, and after a put(k, v)
\* that returned, order_tail names k (capacity >= 1).
C15_TouchedKeyIsTail ==
    (/\ capacity >= 1 /\ ~panicked
     /\ \/ last.op = "get" /\ last.ret # None
        \/ last.op = "put")
        => tail = Some(last.key)

\* C15 witness: a get has returned Some on a cache of several entries.
C15_Witness ==
    /\ capacity >= 1 /\ ~panicked
    /\ last.op = "get" /\ last.ret # None
    /\ map_len(map) >= 2
    /\ tail = Some(last.key)

\* C16: the stored links are doubly-linked consistent: for all keys a and b
\* of the index, a's successor is b iff b's predecessor is a; the entry
\* order_head names has no predecessor and the entry order_tail names has
\* no successor (stated for the states between calls, capacity >= 1).
C16_LinksSymmetric ==
    (capacity >= 1 /\ ~panicked) =>
        /\ \A a, b \in DOMAIN map :
              (map[a].next = Some(b)) <=> (map[b].prev = Some(a))
        /\ \A k \in DOMAIN map :
              /\ head = Some(k) => map[k].prev = None
              /\ tail = Some(k) => map[k].next = None

\* C17: no dangling reference: every key named by order_head, order_tail or
\* a stored predecessor or successor link is a key of the index (stated for
\* the states between calls, capacity >= 1).
C17_NoDanglingKey ==
    (capacity >= 1 /\ ~panicked) =>
        LET InIndex(o) == o = None \/ unwrap(o) \in DOMAIN map
        IN  /\ InIndex(head)
            /\ InIndex(tail)
            /\ \A k \in DOMAIN map :
                  InIndex(map[k].prev) /\ InIndex(map[k].next)

\* C18: a get(k) that returns leaves the set of keys of the index and the
\* value stored for every key unchanged, for k present or absent.
C18_GetKeepsKeysAndValues ==
    [][(~panicked /\ last'.op = "get" /\ ~panicked')
          => (/\ DOMAIN map' = DOMAIN map
              /\ \A k \in DOMAIN map : map'[k].value = map[k].value)]_vars

\* C18 witness: a get has returned Some on a cache of several entries, and
\* the keys of the index are those it held before the call.
C18_Witness ==
    /\ ~panicked
    /\ last.op = "get" /\ last.ret # None
    /\ last.key \in DOMAIN map
    /\ map_len(map) >= 2
    /\ last.preKeys = DOMAIN map

\* C19: every entry stored in the index has an absent predecessor link.
C19_StoredPrevAbsent ==
    \A k \in DOMAIN map : map[k].prev = None

\* C19 witness: a put has appended a new entry behind a present tail: the
\* old tail's stored successor names it, its own stored predecessor is
\* absent.
C19_Witness ==
    /\ ~panicked
    /\ last.op = "put" /\ last.key \notin last.preKeys
    /\ last.key \in DOMAIN map
    /\ \E t \in DOMAIN map : t # last.key /\ map[t].next = Some(last.key)
    /\ map[last.key].prev = None

====
